---- MODULE Spec2Model ----
(***************************************************************************)
(* A model of five pieces of the optimizer:                                *)
(*   - constant_propagation::Transform::Stats and its operator+=,          *)
(*   - constant_propagation::value_to_instruction_visitor,                 *)
(*   - class_merging::strategy::group_by_cls_count / group_by_code_size,   *)
(*   - class_merging::strategy::group_by_refs over a CrossDexRefMinimizer, *)
(*     of which only the calls made by group_by_refs are known,            *)
(*   - the two-phase Transform (analysis, then apply_changes), whose       *)
(*     bodies are not part of the header and are modelled from spec.md.    *)
(* Each piece has its own specification; the variables of the other        *)
(* pieces are held at an idle value.                                       *)
(***************************************************************************)
EXTENDS Integers, Sequences, FiniteSets

VARIABLES
    \* ---- Stats merge (SpecStats)
    st_in,            \* per-method Stats records, indexed 1..NumMethods
    st_pending,       \* indices of the records not merged yet
    st_agg,           \* the caller-owned aggregate
    \* ---- value_to_instruction_visitor (SpecVisitor)
    m_original,       \* the original instruction: [dest, dest_is_wide]
    m_xstores,        \* the XStoreRefs pointer: [is_null, illegal]
    m_declaring_type, \* the declaring type
    v_value,          \* the ConstantValue handed to apply_visitor
    v_result,         \* the returned std::vector<IRInstruction*>
    v_pc,             \* "call" before the visit, "done" after
    \* ---- group_by_cls_count (SpecClsCount)
    cc_types,         \* mergeable_types in set order
    cc_min,           \* min_mergeables_count
    cc_opt_max,       \* opt_max_mergeables_count (optional)
    cc_remaining,     \* remaining_count
    cc_it,            \* the iterator it, as a position in cc_types
    cc_groups,        \* the groups handed to the walker, in call order
    cc_pc,            \* "assert", "loop", "tail", "done", "aborted"
    \* ---- group_by_code_size (SpecCodeSize)
    cs_types,         \* mergeable_types in set order
    cs_size,          \* estimate_vmethods_code_size per type
    cs_idx,           \* position of the range-for in cs_types
    cs_current_group, \* current_group
    cs_estimated,     \* estimated_merged_code_size
    cs_groups,        \* the groups handed to the walker, in call order
    cs_pc,            \* "loop", "done"
    \* ---- group_by_refs (SpecRefs)
    rf_types,         \* mergeable_types in set order
    rf_size,          \* estimate_vmethods_code_size per class
    rf_refs,          \* the number of non-trivial references per class
    cross_dex_ref_minimizer, \* the CrossDexRefMinimizer
    rf_idx,           \* position of the current range-for in rf_types
    rf_current_group, \* current_group
    rf_estimated,     \* estimated_merged_code_size
    rf_groups,        \* the groups handed to the walker, in call order
    rf_iterations,    \* how many times the body of the while loop has run
    rf_pc,            \* "sample", "insert", "loop", "done"
    \* ---- Transform (SpecTransform)
    t_method,         \* the method body as handed to the first application
    t_facts,          \* the external analysis inputs, fixed over both runs
    body,             \* the method body (control-flow graph), edited in place
    body0,            \* the body at the start of the current application
    m_replacements,   \* queued (instruction, replacement sequence) pairs
    m_added_param_values, \* queued parameter constants
    m_deletes,        \* queued deletions
    m_rebuild_cfg,    \* a structural edit is queued
    m_stats,          \* the Stats of the current application
    t_cursor,         \* the next block the analysis visits
    t_run,            \* 1 for the first application, 2 for the second
    t_pc              \* "analyse", "commit", "done"

statsVars   == <<st_in, st_pending, st_agg>>
visitorVars == <<m_original, m_xstores, m_declaring_type, v_value, v_result, v_pc>>
clsCountVars == <<cc_types, cc_min, cc_opt_max, cc_remaining, cc_it, cc_groups, cc_pc>>
codeSizeVars == <<cs_types, cs_size, cs_idx, cs_current_group, cs_estimated,
                  cs_groups, cs_pc>>
refsVars == <<rf_types, rf_size, rf_refs, cross_dex_ref_minimizer, rf_idx,
              rf_current_group, rf_estimated, rf_groups, rf_iterations, rf_pc>>
transformVars == <<t_method, t_facts, body, body0, m_replacements,
                   m_added_param_values, m_deletes, m_rebuild_cfg, m_stats,
                   t_cursor, t_run, t_pc>>
vars == <<statsVars, visitorVars, clsCountVars, codeSizeVars, refsVars, transformVars>>

(***************************************************************************)
(* Transform::Stats                                                        *)
(***************************************************************************)

\* Width of a counter in bits. size_t has 64; the model keeps the wrap-around
\* at a small width, so that sums reach it.
CounterBits == 3
SizeMod == 2 ^ CounterBits

\* Number of per-method Stats records merged into the aggregate.
NumMethods == 3

\* struct Stats: seven size_t counters, all zero-initialised.
StatsZero ==
    [branches_removed |-> 0, branches_forwarded |-> 0, materialized_consts |-> 0,
     added_param_const |-> 0, throws |-> 0, null_checks |-> 0,
     null_checks_method_calls |-> 0]

\* A copy-and-paste slip: branches_forwarded accumulates that.branches_removed.
StatsAddSlip(this, that) ==
    [branches_removed   |-> (this.branches_removed + that.branches_removed) % SizeMod,
     branches_forwarded |-> (this.branches_forwarded + that.branches_removed) % SizeMod,
     materialized_consts |-> (this.materialized_consts + that.materialized_consts) % SizeMod,
     added_param_const  |-> (this.added_param_const + that.added_param_const) % SizeMod,
     throws             |-> (this.throws + that.throws) % SizeMod,
     null_checks        |-> (this.null_checks + that.null_checks) % SizeMod,
     null_checks_method_calls |->
         (this.null_checks_method_calls + that.null_checks_method_calls) % SizeMod]

\* Stats& operator+=(const Stats& that): the value of *this afterwards.
StatsAdd(this, that) ==
    [branches_removed   |-> (this.branches_removed + that.branches_removed) % SizeMod,
     branches_forwarded |-> (this.branches_forwarded + that.branches_forwarded) % SizeMod,
     materialized_consts |-> (this.materialized_consts + that.materialized_consts) % SizeMod,
     added_param_const  |-> (this.added_param_const + that.added_param_const) % SizeMod,
     throws             |-> (this.throws + that.throws) % SizeMod,
     null_checks        |-> (this.null_checks + that.null_checks) % SizeMod,
     null_checks_method_calls |->
         (this.null_checks_method_calls + that.null_checks_method_calls) % SizeMod]

\* The Stats records the inputs are drawn from: the seven counters differ from
\* one another (base, base+step, ...) and reach the top of the counter range.
StatsSamples ==
    { [branches_removed   |-> base % SizeMod,
       branches_forwarded |-> (base + step) % SizeMod,
       materialized_consts |-> (base + 2 * step) % SizeMod,
       added_param_const  |-> (base + 3 * step) % SizeMod,
       throws             |-> (base + 4 * step) % SizeMod,
       null_checks        |-> (base + 5 * step) % SizeMod,
       null_checks_method_calls |-> (base + 6 * step) % SizeMod] :
         base \in {0, 1, SizeMod - 1}, step \in {0, 1, SizeMod - 1} }

StatsIdle == st_in = <<>> /\ st_pending = {} /\ st_agg = StatsZero

StatsInit ==
    /\ st_in \in [1..NumMethods -> StatsSamples]
    /\ st_pending = 1..NumMethods
    /\ st_agg = StatsZero

\* The caller merges one method's Stats into its aggregate: agg += stats.
StatsMerge(i) ==
    /\ i \in st_pending
    /\ st_agg' = StatsAdd(st_agg, st_in[i])
    /\ st_pending' = st_pending \ {i}
    /\ UNCHANGED st_in

(***************************************************************************)
(* value_to_instruction_visitor                                            *)
(***************************************************************************)

\* Registers are 0..MaxReg, numeric literals -MaxLiteral..MaxLiteral.
MaxReg == 1
MaxLiteral == 1

Regs == 0..MaxReg
Literals == (-MaxLiteral)..MaxLiteral
DexTypes == {"LFoo;", "LBar;"}
DexStrings == {"a", "b"}

\* XStoreRefs::illegal_ref(location, ref): the Store-Partition Checker. The
\* checker is a relation over (declaring type, referenced type or string).
illegal_ref(xstores, location, ref) == <<location, ref>> \in xstores.illegal

\* The abstract values. get_constant() is a boost::optional, modelled as a
\* sequence of length at most one.
SignedConstantDomains ==
    { [kind |-> "SignedConstantDomain", constant |-> c] :
        c \in {<<>>} \cup { <<l>> : l \in Literals } }
StringDomains ==
    { [kind |-> "StringDomain", constant |-> c] :
        c \in {<<>>} \cup { <<s>> : s \in DexStrings } }
ConstantClassObjectDomains ==
    { [kind |-> "ConstantClassObjectDomain", constant |-> c] :
        c \in {<<>>} \cup { <<t>> : t \in DexTypes } }
OtherDomains ==
    { [kind |-> k, constant |-> c] :
        k \in {"SingletonObjectDomain", "AbstractHeapPointer"},
        c \in {<<>>, <<"obj">>} }
ConstantValues ==
    SignedConstantDomains \cup StringDomains \cup ConstantClassObjectDomains
        \cup OtherDomains

get_constant(dom) == dom.constant

\* The instructions the visitor builds.
ConstInsn(opcode, literal, dest) ==
    [opcode |-> opcode, literal |-> literal, dest |-> dest]
ConstStringInsn(string) == [opcode |-> "OPCODE_CONST_STRING", string |-> string]
ConstClassInsn(type) == [opcode |-> "OPCODE_CONST_CLASS", type |-> type]
MoveResultPseudoObject(dest) ==
    [opcode |-> "IOPCODE_MOVE_RESULT_PSEUDO_OBJECT", dest |-> dest]

\* A slip: the literal load is always narrow.
VisitSignedNarrow(original, dom) ==
    LET cst == get_constant(dom) IN
    IF cst = <<>> THEN <<>>
    ELSE <<ConstInsn("OPCODE_CONST", cst[1], original.dest)>>

\* operator()(const SignedConstantDomain&)
VisitSigned(original, dom) ==
    LET cst == get_constant(dom) IN
    IF cst = <<>> THEN <<>>
    ELSE <<ConstInsn(IF original.dest_is_wide THEN "OPCODE_CONST_WIDE"
                                              ELSE "OPCODE_CONST",
                     cst[1], original.dest)>>

\* A variant that gates the string on the checker, as the class overload does.
VisitStringGated(original, xstores, declaring_type, dom) ==
    LET cst == get_constant(dom) IN
    IF cst = <<>> THEN <<>>
    ELSE IF xstores.is_null \/ illegal_ref(xstores, declaring_type, cst[1])
    THEN <<>>
    ELSE <<ConstStringInsn(cst[1]), MoveResultPseudoObject(original.dest)>>

\* operator()(const StringDomain&)
VisitString(original, xstores, declaring_type, dom) ==
    LET cst == get_constant(dom) IN
    IF cst = <<>> THEN <<>>
    ELSE <<ConstStringInsn(cst[1]), MoveResultPseudoObject(original.dest)>>

\* A slip: only the null pointer is tested, the checker's answer is dropped.
VisitClassUngated(original, xstores, declaring_type, dom) ==
    LET cst == get_constant(dom) IN
    IF cst = <<>> THEN <<>>
    ELSE IF xstores.is_null THEN <<>>
    ELSE <<ConstClassInsn(cst[1]), MoveResultPseudoObject(original.dest)>>

\* operator()(const ConstantClassObjectDomain&)
VisitClass(original, xstores, declaring_type, dom) ==
    LET cst == get_constant(dom) IN
    IF cst = <<>> THEN <<>>
    ELSE LET type == cst[1] IN
         IF xstores.is_null \/ illegal_ref(xstores, declaring_type, type)
         THEN <<>>
         ELSE <<ConstClassInsn(type), MoveResultPseudoObject(original.dest)>>

\* A slip: the catch-all overload materializes a zero.
VisitOtherZero(original, dom) == <<ConstInsn("OPCODE_CONST", 0, original.dest)>>

\* template <typename Domain> operator()(const Domain&)
VisitOther(original, dom) == <<>>

\* ConstantValue::apply_visitor(value_to_instruction_visitor(...), value):
\* overload resolution on the variant's alternative.
apply_visitor(original, xstores, declaring_type, value) ==
    CASE value.kind = "SignedConstantDomain" -> VisitSigned(original, value)
      [] value.kind = "StringDomain" ->
            VisitString(original, xstores, declaring_type, value)
      [] value.kind = "ConstantClassObjectDomain" ->
            VisitClass(original, xstores, declaring_type, value)
      [] OTHER -> VisitOther(original, value)

XStoreRefsValues ==
    { [is_null |-> TRUE, illegal |-> {}] } \cup
    { [is_null |-> FALSE, illegal |-> s] :
        s \in SUBSET (DexTypes \X (DexTypes \cup DexStrings)) }

VisitorIdle ==
    /\ m_original = [dest |-> 0, dest_is_wide |-> FALSE]
    /\ m_xstores = [is_null |-> TRUE, illegal |-> {}]
    /\ m_declaring_type = "LFoo;"
    /\ v_value = [kind |-> "SignedConstantDomain", constant |-> <<>>]
    /\ v_result = <<>>
    /\ v_pc = "idle"

VisitorInit ==
    /\ m_original \in [dest : Regs, dest_is_wide : BOOLEAN]
    /\ m_xstores \in XStoreRefsValues
    /\ m_declaring_type \in DexTypes
    /\ v_value \in ConstantValues
    /\ v_result = <<>>
    /\ v_pc = "call"

\* One materialization: the visitor is applied to the value.
Visit ==
    /\ v_pc = "call"
    /\ v_result' = apply_visitor(m_original, m_xstores, m_declaring_type, v_value)
    /\ v_pc' = "done"
    /\ UNCHANGED <<m_original, m_xstores, m_declaring_type, v_value>>

(***************************************************************************)
(* class_merging::strategy: group_by_cls_count                             *)
(***************************************************************************)

\* Types are numbered 1..MaxTypeId; a TypeSet iterates in increasing order.
MaxTypeId == 6
\* min_mergeables_count and max_mergeables_count range over 0..MaxCount.
MaxCount == 4
\* std::numeric_limits<size_t>::max(), at the width of 32-bit signed integers;
\* it only has to exceed every set size.
SizeMax == 2147483647

RECURSIVE SortedSeq(_)
\* The iteration order of a TypeSet (a std::set): its elements, ascending.
SortedSeq(S) ==
    IF S = {} THEN <<>>
    ELSE LET m == CHOOSE x \in S : \A y \in S : x <= y
         IN <<m>> \o SortedSeq(S \ {m})

\* size_t max_mergeables_count = opt ? *opt : numeric_limits<size_t>::max()
max_mergeables_count(opt) == IF opt = <<>> THEN SizeMax ELSE opt[1]

\* redex_assert(min <= max && min >= 2)
CountsAccepted(min, max) == min <= max /\ min >= 2

\* A slip: the tail is emitted whenever anything remains.
TailFitsAny(remaining, min) == remaining > 0

\* if (remaining_count >= min_mergeables_count)
TailFits(remaining, min) == remaining >= min

ClsCountIdle ==
    /\ cc_types = <<>> /\ cc_min = 0 /\ cc_opt_max = <<>> /\ cc_remaining = 0
    /\ cc_it = 0 /\ cc_groups = <<>> /\ cc_pc = "idle"

ClsCountInit ==
    /\ \E S \in SUBSET (1..MaxTypeId) : cc_types = SortedSeq(S)
    /\ cc_min \in 0..MaxCount
    /\ cc_opt_max \in {<<>>} \cup { <<m>> : m \in 0..MaxCount }
    /\ cc_remaining = 0
    /\ cc_it = 0
    /\ cc_groups = <<>>
    /\ cc_pc = "assert"

\* Lines 48-56: the assertion, then remaining_count and it are initialised.
CcEnter ==
    /\ cc_pc = "assert"
    /\ IF CountsAccepted(cc_min, max_mergeables_count(cc_opt_max))
       THEN /\ cc_remaining' = Len(cc_types)
            /\ cc_it' = 1
            /\ cc_pc' = "loop"
       ELSE /\ cc_pc' = "aborted"
            /\ UNCHANGED <<cc_remaining, cc_it>>
    /\ UNCHANGED <<cc_types, cc_min, cc_opt_max, cc_groups>>

\* Lines 57-63: one iteration of the for loop.
CcLoop ==
    /\ cc_pc = "loop"
    /\ cc_remaining >= max_mergeables_count(cc_opt_max)
    /\ LET max == max_mergeables_count(cc_opt_max)
           next == cc_it + max
           curr_group == SubSeq(cc_types, cc_it, next - 1)
       IN /\ cc_groups' = Append(cc_groups, curr_group)
          /\ cc_it' = next
          /\ cc_remaining' = cc_remaining - max
    /\ UNCHANGED <<cc_types, cc_min, cc_opt_max, cc_pc>>

\* Line 57: the loop condition fails.
CcLoopExit ==
    /\ cc_pc = "loop"
    /\ ~(cc_remaining >= max_mergeables_count(cc_opt_max))
    /\ cc_pc' = "tail"
    /\ UNCHANGED <<cc_types, cc_min, cc_opt_max, cc_remaining, cc_it, cc_groups>>

\* Lines 64-67: the tail group.
CcTail ==
    /\ cc_pc = "tail"
    /\ IF TailFits(cc_remaining, cc_min)
       THEN cc_groups' = Append(cc_groups, SubSeq(cc_types, cc_it, Len(cc_types)))
       ELSE cc_groups' = cc_groups
    /\ cc_pc' = "done"
    /\ UNCHANGED <<cc_types, cc_min, cc_opt_max, cc_remaining, cc_it>>

(***************************************************************************)
(* class_merging::strategy: group_by_code_size                             *)
(***************************************************************************)

\* constexpr size_t max_instruction_size = 1 << 15
max_instruction_size == 32768

\* The mergeable set holds at most MaxSizedTypes types, numbered from 1.
MaxSizedTypes == 4

\* The estimates the inputs are drawn from: around zero, around half the
\* limit and around the limit.
SizeSamples ==
    {0, 1, max_instruction_size \div 2, (max_instruction_size \div 2) + 1,
     max_instruction_size, max_instruction_size + 1}

\* if (vmethod_code_size > max_instruction_size) continue;
Oversize(vmethod_code_size) == vmethod_code_size > max_instruction_size

\* A slip: the limit is tested before the class is added, not with it.
GroupFullLate(estimated, vmethod_code_size) == estimated > max_instruction_size

\* if (estimated_merged_code_size + vmethod_code_size > max_instruction_size)
GroupFull(estimated, vmethod_code_size) ==
    estimated + vmethod_code_size > max_instruction_size

\* if (current_group.size() > 1) walker(current_group)
Walk(groups, current_group) ==
    IF Len(current_group) > 1 THEN Append(groups, current_group) ELSE groups

CodeSizeIdle ==
    /\ cs_types = <<>> /\ cs_size = <<>> /\ cs_idx = 0 /\ cs_current_group = <<>>
    /\ cs_estimated = 0 /\ cs_groups = <<>> /\ cs_pc = "idle"

CodeSizeInit ==
    /\ \E n \in 0..MaxSizedTypes :
          /\ cs_types = [i \in 1..n |-> i]
          /\ cs_size \in [1..n -> SizeSamples]
    /\ cs_idx = 1
    /\ cs_current_group = <<>>
    /\ cs_estimated = 0
    /\ cs_groups = <<>>
    /\ cs_pc = "loop"

\* Lines 83-101: one iteration of the range-for.
CsIterate ==
    /\ cs_pc = "loop"
    /\ cs_idx <= Len(cs_types)
    /\ LET type == cs_types[cs_idx]
           vmethod_code_size == cs_size[type]
           full == GroupFull(cs_estimated, vmethod_code_size)
           \* current_group.clear(); estimated_merged_code_size = 0;
           cleared_group == IF full THEN <<>> ELSE cs_current_group
           cleared_size == IF full THEN 0 ELSE cs_estimated
       IN IF Oversize(vmethod_code_size)
          THEN UNCHANGED <<cs_current_group, cs_estimated, cs_groups>>
          ELSE /\ cs_groups' = IF full THEN Walk(cs_groups, cs_current_group)
                                        ELSE cs_groups
               /\ cs_current_group' = Append(cleared_group, type)
               /\ cs_estimated' = cleared_size + vmethod_code_size
    /\ cs_idx' = cs_idx + 1
    /\ UNCHANGED <<cs_types, cs_size, cs_pc>>

\* Lines 102-106: the group left at the end of the loop.
CsFinish ==
    /\ cs_pc = "loop"
    /\ cs_idx > Len(cs_types)
    /\ cs_groups' = Walk(cs_groups, cs_current_group)
    /\ cs_pc' = "done"
    /\ UNCHANGED <<cs_types, cs_size, cs_idx, cs_current_group, cs_estimated>>

(***************************************************************************)
(* class_merging::strategy: group_by_refs                                  *)
(* CrossDexRefMinimizer is declared in CrossDexRefMinimizer.h, which is    *)
(* not among the sources. It is modelled by the calls group_by_refs makes  *)
(* on it: a container of classes with a count of applied references. The   *)
(* order in which worst() and front() hand out classes is left open.       *)
(***************************************************************************)

\* constexpr size_t max_applied_refs = 75
max_applied_refs == 75

\* The mergeable set holds at most MaxRefTypes types, numbered from 1.
MaxRefTypes == 3

\* The code-size estimates the inputs are drawn from: small, more than half
\* the limit (two of them close a group) and over the limit (skipped).
RefsSizeSamples == {1, (max_instruction_size \div 2) + 1, max_instruction_size + 1}

\* The reference counts the inputs are drawn from: none, and more than half
\* of max_applied_refs (two of them close a group).
RefsCountSamples == {0, (max_applied_refs \div 2) + 1}

\* CrossDexRefMinimizer cross_dex_ref_minimizer({})
MinimizerEmpty == [sampled |-> {}, classes |-> {}, applied_refs |-> 0]

\* CrossDexRefMinimizer::sample(cls)
sample(minimizer, cls) ==
    [minimizer EXCEPT !.sampled = minimizer.sampled \cup {cls}]

\* CrossDexRefMinimizer::insert(cls)
insert(minimizer, cls) ==
    [minimizer EXCEPT !.classes = minimizer.classes \cup {cls}]

\* CrossDexRefMinimizer::empty()
empty(minimizer) == minimizer.classes = {}

\* CrossDexRefMinimizer::worst(): the classes it may return.
worst(minimizer) == minimizer.classes

\* CrossDexRefMinimizer::front(): the classes it may return.
front(minimizer) == minimizer.classes

\* CrossDexRefMinimizer::get_applied_refs()
get_applied_refs(minimizer) == minimizer.applied_refs

\* The references an emitted class may add to the applied ones: all of its
\* own, or none when every one of them is applied already.
NewlyApplied(refs) == {0, refs}

\* CrossDexRefMinimizer::erase(cls, emitted, reset): cls leaves the
\* container; an emitted class applies new_refs references, after the
\* applied ones are dropped on a reset.
erase(minimizer, cls, emitted, reset, new_refs) ==
    [minimizer EXCEPT
        !.classes = minimizer.classes \ {cls},
        !.applied_refs =
            IF emitted
            THEN (IF reset THEN 0 ELSE minimizer.applied_refs) + new_refs
            ELSE minimizer.applied_refs]

\* A slip: the oversize class is passed over without being erased.
SkipOversizeKept(minimizer, cls) == minimizer

\* Lines 133-138: the oversize class is erased, not emitted, then continue.
SkipOversize(minimizer, cls) == erase(minimizer, cls, FALSE, FALSE, 0)

\* Lines 140-141: the group is closed before cls is added.
RefsGroupFull(estimated, vmethod_code_size, minimizer) ==
    \/ estimated + vmethod_code_size > max_instruction_size
    \/ get_applied_refs(minimizer) > max_applied_refs

RefsIdle ==
    /\ rf_types = <<>> /\ rf_size = <<>> /\ rf_refs = <<>>
    /\ cross_dex_ref_minimizer = MinimizerEmpty /\ rf_idx = 0
    /\ rf_current_group = <<>> /\ rf_estimated = 0 /\ rf_groups = <<>>
    /\ rf_iterations = 0 /\ rf_pc = "idle"

\* Lines 110-119: the arguments and the locals before the first range-for.
RefsInit ==
    /\ \E n \in 0..MaxRefTypes :
          /\ rf_types = [i \in 1..n |-> i]
          /\ rf_size \in [1..n -> RefsSizeSamples]
          /\ rf_refs \in [1..n -> RefsCountSamples]
    /\ cross_dex_ref_minimizer = MinimizerEmpty
    /\ rf_idx = 1
    /\ rf_current_group = <<>>
    /\ rf_estimated = 0
    /\ rf_groups = <<>>
    /\ rf_iterations = 0
    /\ rf_pc = "sample"

\* Lines 120-122: one iteration of the first range-for, or its end.
RfSample ==
    /\ rf_pc = "sample"
    /\ IF rf_idx <= Len(rf_types)
       THEN /\ cross_dex_ref_minimizer' =
                   sample(cross_dex_ref_minimizer, rf_types[rf_idx])
            /\ rf_idx' = rf_idx + 1
            /\ rf_pc' = rf_pc
       ELSE /\ rf_idx' = 1
            /\ rf_pc' = "insert"
            /\ UNCHANGED cross_dex_ref_minimizer
    /\ UNCHANGED <<rf_types, rf_size, rf_refs, rf_current_group, rf_estimated,
                   rf_groups, rf_iterations>>

\* Lines 123-126: one iteration of the second range-for, or its end with
\* estimated_merged_code_size = 0.
RfInsert ==
    /\ rf_pc = "insert"
    /\ IF rf_idx <= Len(rf_types)
       THEN /\ cross_dex_ref_minimizer' =
                   insert(cross_dex_ref_minimizer, rf_types[rf_idx])
            /\ rf_idx' = rf_idx + 1
            /\ rf_pc' = rf_pc
       ELSE /\ rf_idx' = rf_idx
            /\ rf_pc' = "loop"
            /\ UNCHANGED cross_dex_ref_minimizer
    /\ UNCHANGED <<rf_types, rf_size, rf_refs, rf_current_group, rf_estimated,
                   rf_groups, rf_iterations>>

\* Lines 127-153: one iteration of the while loop.
RfIterate ==
    /\ rf_pc = "loop"
    /\ ~empty(cross_dex_ref_minimizer)
    /\ \E cls \in (IF rf_current_group = <<>>
                   THEN worst(cross_dex_ref_minimizer)
                   ELSE front(cross_dex_ref_minimizer)) :
         LET vmethod_code_size == rf_size[cls]
             reset == RefsGroupFull(rf_estimated, vmethod_code_size,
                                    cross_dex_ref_minimizer)
             \* current_group.clear(); estimated_merged_code_size = 0;
             cleared_group == IF reset THEN <<>> ELSE rf_current_group
             cleared_size == IF reset THEN 0 ELSE rf_estimated
         IN IF Oversize(vmethod_code_size)
            THEN /\ cross_dex_ref_minimizer' =
                        SkipOversize(cross_dex_ref_minimizer, cls)
                 /\ UNCHANGED <<rf_current_group, rf_estimated, rf_groups>>
            ELSE \E new_refs \in NewlyApplied(rf_refs[cls]) :
                 /\ rf_groups' = IF reset THEN Walk(rf_groups, rf_current_group)
                                          ELSE rf_groups
                 /\ rf_current_group' = Append(cleared_group, cls)
                 /\ rf_estimated' = cleared_size + vmethod_code_size
                 /\ cross_dex_ref_minimizer' =
                        erase(cross_dex_ref_minimizer, cls, TRUE, reset, new_refs)
    /\ rf_iterations' = rf_iterations + 1
    /\ UNCHANGED <<rf_types, rf_size, rf_refs, rf_idx, rf_pc>>

\* Lines 127, 154-158: the loop condition fails; the group left at the end.
RfFinish ==
    /\ rf_pc = "loop"
    /\ empty(cross_dex_ref_minimizer)
    /\ rf_groups' = Walk(rf_groups, rf_current_group)
    /\ rf_pc' = "done"
    /\ UNCHANGED <<rf_types, rf_size, rf_refs, cross_dex_ref_minimizer, rf_idx,
                   rf_current_group, rf_estimated, rf_iterations>>

(***************************************************************************)
(* Transform: the analysis pass, the change queue and apply_changes.       *)
(* The header declares these methods; their behaviour is taken from        *)
(* spec.md sections 3, 4.1 and 4.3.                                        *)
(***************************************************************************)

\* The method has MaxBlocks basic blocks and, besides an optional load-param
\* and the block terminators, at most MaxInsns straight-line instructions.
MaxBlocks == 3
MaxInsns == 1

Blocks == 1..MaxBlocks
EntryBlock == 1

\* Instruction identities: the terminator of block b is b, the load-param is
\* LoadParamId, the k-th straight-line instruction is LoadParamId + k, and
\* instructions created by a commit get identities from FirstNewId on.
LoadParamId == MaxBlocks + 1
MaxEdits == MaxBlocks + MaxInsns + 1
FirstNewId == MaxBlocks + MaxInsns + 2
FreshId(run, queue, i, k) ==
    FirstNewId + (((run - 1) * 2 + queue) * MaxEdits + (i - 1)) * 2 + (k - 1)

Original == [queue |-> "method", i |-> 0, run |-> 0]
TopValue == [kind |-> "SignedConstantDomain", constant |-> <<>>]

\* The Store-Partition Checker and declaring type of the method under
\* transformation: LFoo; may not refer to LBar;.
TransformXStores == [is_null |-> FALSE, illegal |-> {<<"LFoo;", "LBar;">>}]
TransformDeclaringType == "LFoo;"

RECURSIVE ReachFrom(_, _, _)
\* The blocks reached from S along succ in at most n steps.
ReachFrom(S, succ, n) ==
    IF n = 0 THEN S
    ELSE ReachFrom(S \cup UNION { succ[b] : b \in S }, succ, n - 1)

Successors(blk) == {blk.branch, blk.goto} \ {0}

\* The blocks of graph g reachable from the entry block.
Reachable(g) ==
    ReachFrom({EntryBlock}, [b \in DOMAIN g |-> Successors(g[b])],
              Cardinality(DOMAIN g))

IsIf(blk) == blk.last.insn.opcode = "OPCODE_IF_EQZ"

\* The successors the fixpoint iterator propagates a non-bottom state to.
FeasibleSuccessors(blk, cond) ==
    IF IsIf(blk)
    THEN CASE cond = "true" -> {blk.branch}
           [] cond = "false" -> {blk.goto}
           [] OTHER -> {blk.branch, blk.goto}
    ELSE Successors(blk)

\* The abstract environment at block b is bottom: b is unreachable along the
\* edges the analysis considers feasible.
EnvIsBottom(method, facts, b) ==
    b \notin ReachFrom({EntryBlock},
                       [x \in DOMAIN method |->
                           FeasibleSuccessors(method[x], facts.cond[x])],
                       Cardinality(DOMAIN method))

\* The value the environment gives the destination of instruction id.
FactValue(facts, id) ==
    IF id \in DOMAIN facts.value THEN facts.value[id] ELSE TopValue

Incr(n) == (n + 1) % SizeMod

\* Constant substitution: queue the materialized sequence for a move.
replace_with_const(q, x, facts) ==
    LET replacement == apply_visitor(x.insn, TransformXStores,
                                     TransformDeclaringType,
                                     FactValue(facts, x.id))
    IN IF replacement = <<>> THEN q
       ELSE [q EXCEPT !.replacements = Append(@, <<x.id, replacement>>),
                      !.stats.materialized_consts = Incr(@)]

\* Parameter-constant generation: queue one constant for a load-param.
generate_const_param(q, x, facts) ==
    LET replacement == apply_visitor(x.insn, TransformXStores,
                                     TransformDeclaringType,
                                     FactValue(facts, x.id))
    IN IF replacement = <<>> THEN q
       ELSE [q EXCEPT !.added = @ \o replacement,
                      !.stats.added_param_const = Incr(@)]

\* Redundant field-write elimination: queue the deletion of the write.
eliminate_redundant_put(q, x, facts) ==
    IF x.id \in facts.proven
    THEN [q EXCEPT !.deletes = Append(@, x.id)]
    ELSE q

\* Redundant null-check elimination: queue the deletion of the assertion.
eliminate_redundant_null_check(q, x, facts) ==
    IF x.id \in facts.proven
    THEN [q EXCEPT !.deletes = Append(@, x.id),
                   !.stats.null_checks = Incr(@),
                   !.stats.null_checks_method_calls = Incr(@)]
    ELSE q

\* The rule that applies to one instruction; exactly one rule may queue.
simplify_instruction(q, x, facts) ==
    CASE x.insn.opcode = "IOPCODE_LOAD_PARAM" -> generate_const_param(q, x, facts)
      [] x.insn.opcode = "OPCODE_MOVE" -> replace_with_const(q, x, facts)
      [] x.insn.opcode = "OPCODE_INVOKE_STATIC" ->
            eliminate_redundant_null_check(q, x, facts)
      [] x.insn.opcode = "OPCODE_IPUT" -> eliminate_redundant_put(q, x, facts)
      [] OTHER -> q

RECURSIVE SimplifyAll(_, _, _)
SimplifyAll(q, insns, facts) ==
    IF insns = <<>> THEN q
    ELSE SimplifyAll(simplify_instruction(q, Head(insns), facts), Tail(insns), facts)

\* A slip: the jump always goes to the fall-through successor.
eliminate_dead_branch_fallthrough(q, blk, cond, problematic_return) ==
    IF IsIf(blk) /\ ~problematic_return /\ cond \in {"true", "false"}
    THEN [q EXCEPT !.replacements =
                       Append(@, <<blk.last.id,
                                   <<[opcode |-> "OPCODE_GOTO",
                                      target |-> blk.goto]>>>>),
                   !.rebuild = TRUE,
                   !.stats.branches_removed = Incr(@)]
    ELSE q

\* Dead-branch elimination: queue the replacement of the conditional by a
\* jump to the successor the environment proves is taken, unless the
\* return-type hazard check suppresses it.
eliminate_dead_branch(q, blk, cond, problematic_return) ==
    IF IsIf(blk) /\ ~problematic_return /\ cond \in {"true", "false"}
    THEN LET target == IF cond = "true" THEN blk.branch ELSE blk.goto
         IN [q EXCEPT !.replacements =
                          Append(@, <<blk.last.id,
                                      <<[opcode |-> "OPCODE_GOTO",
                                         target |-> target]>>>>),
                      !.rebuild = TRUE,
                      !.stats.branches_removed = Incr(@)]
    ELSE q

\* The analysis of one block: the instruction rules, then the block rules.
AnalyseOne(q, method, g, facts, b) ==
    IF b \notin DOMAIN g \/ EnvIsBottom(method, facts, b) THEN q
    ELSE eliminate_dead_branch(SimplifyAll(q, g[b].insns, facts), g[b],
                               facts.cond[b], facts.problematic_return)

RECURSIVE Splice(_, _, _)
\* seq with the instruction of identity id replaced by the sequence new.
Splice(seq, id, new) ==
    IF seq = <<>> THEN <<>>
    ELSE (IF Head(seq).id = id THEN new ELSE <<Head(seq)>>)
             \o Splice(Tail(seq), id, new)

\* The instructions a commit creates for edit i of a queue.
Tagged(new, queue, qn, i, run) ==
    [k \in 1..Len(new) |->
        [id |-> FreshId(run, qn, i, k),
         origin |-> [queue |-> queue, i |-> i, run |-> run],
         insn |-> new[k]]]

\* Replace the instruction id of graph g by new; a replaced terminator
\* becomes a jump and the block keeps only the edge to its target.
ReplaceInsn(g, id, new) ==
    [b \in DOMAIN g |->
        IF g[b].last.id = id
        THEN [insns |-> g[b].insns, last |-> new[1], branch |-> 0,
              goto |-> new[1].insn.target]
        ELSE [g[b] EXCEPT !.insns = Splice(@, id, new)]]

RECURSIVE ApplyReplacements(_, _, _, _)
ApplyReplacements(g, replacements, i, run) ==
    IF i > Len(replacements) THEN g
    ELSE ApplyReplacements(
             ReplaceInsn(g, replacements[i][1],
                         Tagged(replacements[i][2], "m_replacements", 0, i, run)),
             replacements, i + 1, run)

\* A slip: the queued deletions are never applied.
ApplyDeletesSkipped(g, deletes, i) == g

RECURSIVE ApplyDeletes(_, _, _)
ApplyDeletes(g, deletes, i) ==
    IF i > Len(deletes) THEN g
    ELSE ApplyDeletes([b \in DOMAIN g |->
                          [g[b] EXCEPT !.insns = Splice(@, deletes[i], <<>>)]],
                      deletes, i + 1)

\* The number of load-param instructions at the head of the entry block.
RECURSIVE ParamCount(_)
ParamCount(insns) ==
    IF insns /= <<>> /\ Head(insns).insn.opcode = "IOPCODE_LOAD_PARAM"
    THEN 1 + ParamCount(Tail(insns))
    ELSE 0

\* A slip: the queued parameter constants are inserted twice.
ApplyAddedParamsTwice(g, added, run) ==
    IF added = <<>> THEN g
    ELSE LET insns == g[EntryBlock].insns
             n == ParamCount(insns)
             new == [i \in 1..Len(added) |->
                        Tagged(<<added[i]>>, "m_added_param_values", 1, i, run)[1]]
         IN [g EXCEPT ![EntryBlock].insns =
                SubSeq(insns, 1, n) \o new \o new \o SubSeq(insns, n + 1, Len(insns))]

\* The queued parameter constants go right after the load-params.
ApplyAddedParams(g, added, run) ==
    IF added = <<>> THEN g
    ELSE LET insns == g[EntryBlock].insns
             n == ParamCount(insns)
             new == [i \in 1..Len(added) |->
                        Tagged(<<added[i]>>, "m_added_param_values", 1, i, run)[1]]
         IN [g EXCEPT ![EntryBlock].insns =
                SubSeq(insns, 1, n) \o new \o SubSeq(insns, n + 1, Len(insns))]

\* Unreachable blocks are removed when a structural edit was made.
PruneUnreachable(g, rebuild) ==
    IF rebuild THEN [b \in Reachable(g) |-> g[b]] ELSE g

\* apply_changes: every queued edit is applied, then the graph is rebuilt.
apply_changes(g, q, run) ==
    PruneUnreachable(
        ApplyAddedParams(
            ApplyDeletes(ApplyReplacements(g, q.replacements, 1, run),
                         q.deletes, 1),
            q.added, run),
        q.rebuild)

\* ---- the inputs

\* The terminators block b may end in. A conditional falls through to the
\* block that follows it (its false-successor, the goto edge) and branches
\* to any other block (its true-successor, the branch edge).
Terminators(b) ==
    { [opcode |-> "OPCODE_RETURN_VOID", branch |-> 0, goto |-> 0] } \cup
    { [opcode |-> "OPCODE_GOTO", branch |-> 0, goto |-> t] : t \in Blocks } \cup
    { [opcode |-> "OPCODE_IF_EQZ", branch |-> t, goto |-> b + 1] :
        t \in { x \in Blocks : b < MaxBlocks /\ x /= b + 1 } }

MoveValues ==
    { [kind |-> "SignedConstantDomain", constant |-> <<1>>],
      TopValue,
      [kind |-> "ConstantClassObjectDomain", constant |-> <<"LBar;">>],
      [kind |-> "ConstantClassObjectDomain", constant |-> <<"LFoo;">>] }

\* A straight-line instruction, the block it is in and the analysis fact at it.
InsnChoices ==
    { [opcode |-> "OPCODE_MOVE", block |-> b, value |-> v, proven |-> FALSE] :
        b \in Blocks, v \in MoveValues } \cup
    { [opcode |-> o, block |-> b, value |-> TopValue, proven |-> p] :
        o \in {"OPCODE_INVOKE_STATIC", "OPCODE_IPUT"}, b \in Blocks,
        p \in BOOLEAN }

\* The body built from the chosen terminators, load-param and instructions.
MethodBody(terms, param, extra) ==
    [b \in Blocks |->
        [insns |->
            (IF b = EntryBlock /\ param /= "none"
             THEN <<[id |-> LoadParamId, origin |-> Original,
                     insn |-> [opcode |-> "IOPCODE_LOAD_PARAM", dest |-> 0,
                               dest_is_wide |-> FALSE]]>>
             ELSE <<>>)
            \o [k \in 1..Len(SelectSeq(extra, LAMBDA e : e.block = b)) |->
                  LET e == SelectSeq(extra, LAMBDA d : d.block = b)[k]
                      pos == CHOOSE j \in 1..Len(extra) : extra[j] = e
                  IN [id |-> LoadParamId + pos, origin |-> Original,
                      insn |-> [opcode |-> e.opcode, dest |-> 1,
                                dest_is_wide |-> FALSE]]],
         last |-> [id |-> b, origin |-> Original,
                   insn |-> [opcode |-> terms[b].opcode]],
         branch |-> terms[b].branch,
         goto |-> terms[b].goto]]

Facts(cond, param, extra, hazard) ==
    [cond |-> cond,
     value |-> [id \in LoadParamId..(LoadParamId + Len(extra)) |->
                   IF id = LoadParamId
                   THEN IF param = "const"
                        THEN [kind |-> "SignedConstantDomain", constant |-> <<0>>]
                        ELSE TopValue
                   ELSE extra[id - LoadParamId].value],
     proven |-> { LoadParamId + k : k \in { j \in 1..Len(extra) : extra[j].proven } },
     problematic_return |-> hazard]

TransformIdle ==
    /\ t_method = <<>> /\ t_facts = <<>> /\ body = <<>> /\ body0 = <<>>
    /\ m_replacements = <<>> /\ m_added_param_values = <<>> /\ m_deletes = <<>>
    /\ m_rebuild_cfg = FALSE /\ m_stats = StatsZero
    /\ t_cursor = 0 /\ t_run = 0 /\ t_pc = "idle"

\* The terminator assignments that form a control-flow graph: every block is
\* reachable from the entry block.
TerminatorChoices ==
    { f \in [Blocks -> UNION { Terminators(b) : b \in Blocks }] :
        /\ \A b \in Blocks : f[b] \in Terminators(b)
        /\ ReachFrom({EntryBlock}, [b \in Blocks |-> Successors(f[b])],
                     MaxBlocks) = Blocks }

\* The branch facts: a condition is known only at a conditional.
CondChoices(terms) ==
    { c \in [Blocks -> {"true", "false", "unknown"}] :
        \A b \in Blocks : terms[b].opcode /= "OPCODE_IF_EQZ" => c[b] = "unknown" }

\* The straight-line instructions: two instructions are two objects.
ExtraChoices ==
    { e \in UNION { [1..n -> InsnChoices] : n \in 0..MaxInsns } :
        \A j, k \in 1..Len(e) : e[j] = e[k] => j = k }

TransformInit ==
    /\ \E terms \in TerminatorChoices :
       \E cond \in CondChoices(terms) :
       \E param \in {"none", "const", "top"}, extra \in ExtraChoices,
          hazard \in BOOLEAN :
          /\ t_method = MethodBody(terms, param, extra)
          /\ t_facts = Facts(cond, param, extra, hazard)
    /\ body = t_method
    /\ body0 = t_method
    /\ m_replacements = <<>>
    /\ m_added_param_values = <<>>
    /\ m_deletes = <<>>
    /\ m_rebuild_cfg = FALSE
    /\ m_stats = StatsZero
    /\ t_cursor = 1
    /\ t_run = 1
    /\ t_pc = "analyse"

Queue ==
    [replacements |-> m_replacements, added |-> m_added_param_values,
     deletes |-> m_deletes, rebuild |-> m_rebuild_cfg, stats |-> m_stats]

\* Phase one, one block: the rules inspect the block and queue their edits.
AnalyseBlock ==
    /\ t_pc = "analyse"
    /\ t_cursor <= MaxBlocks
    /\ LET q == AnalyseOne(Queue, t_method, body, t_facts, t_cursor)
       IN /\ m_replacements' = q.replacements
          /\ m_added_param_values' = q.added
          /\ m_deletes' = q.deletes
          /\ m_rebuild_cfg' = q.rebuild
          /\ m_stats' = q.stats
    /\ t_cursor' = t_cursor + 1
    /\ t_pc' = IF t_cursor = MaxBlocks THEN "commit" ELSE "analyse"
    /\ UNCHANGED <<t_method, t_facts, body, body0, t_run>>

\* Phase two: apply_changes commits the queue.
ApplyChanges ==
    /\ t_pc = "commit"
    /\ body' = apply_changes(body, Queue, t_run)
    /\ t_pc' = "done"
    /\ UNCHANGED <<t_method, t_facts, body0, m_replacements, m_added_param_values,
                   m_deletes, m_rebuild_cfg, m_stats, t_cursor, t_run>>

\* The Transform is applied a second time, by a fresh instance, to the body
\* the first application left, with the same analysis inputs.
Reapply ==
    /\ t_pc = "done"
    /\ t_run = 1
    /\ t_run' = 2
    /\ body0' = body
    /\ m_replacements' = <<>>
    /\ m_added_param_values' = <<>>
    /\ m_deletes' = <<>>
    /\ m_rebuild_cfg' = FALSE
    /\ m_stats' = StatsZero
    /\ t_cursor' = 1
    /\ t_pc' = "analyse"
    /\ UNCHANGED <<t_method, t_facts, body>>

(***************************************************************************)
(* Specifications                                                          *)
(***************************************************************************)

SpecStatsInit == StatsInit /\ VisitorIdle /\ ClsCountIdle /\ CodeSizeIdle /\ TransformIdle /\ RefsIdle
SpecStatsNext ==
    \E i \in 1..NumMethods :
        StatsMerge(i) /\ UNCHANGED <<visitorVars, clsCountVars, codeSizeVars, transformVars, refsVars>>
SpecStats == SpecStatsInit /\ [][SpecStatsNext]_vars

SpecVisitorInit == VisitorInit /\ StatsIdle /\ ClsCountIdle /\ CodeSizeIdle /\ TransformIdle /\ RefsIdle
SpecVisitorNext == Visit /\ UNCHANGED <<statsVars, clsCountVars, codeSizeVars, transformVars, refsVars>>
SpecVisitor == SpecVisitorInit /\ [][SpecVisitorNext]_vars

SpecClsCountInit == ClsCountInit /\ StatsIdle /\ VisitorIdle /\ CodeSizeIdle /\ TransformIdle /\ RefsIdle
SpecClsCountNext ==
    \/ CcEnter /\ UNCHANGED <<statsVars, visitorVars, codeSizeVars, transformVars, refsVars>>
    \/ CcLoop /\ UNCHANGED <<statsVars, visitorVars, codeSizeVars, transformVars, refsVars>>
    \/ CcLoopExit /\ UNCHANGED <<statsVars, visitorVars, codeSizeVars, transformVars, refsVars>>
    \/ CcTail /\ UNCHANGED <<statsVars, visitorVars, codeSizeVars, transformVars, refsVars>>
SpecClsCount == SpecClsCountInit /\ [][SpecClsCountNext]_vars

SpecCodeSizeInit == CodeSizeInit /\ StatsIdle /\ VisitorIdle /\ ClsCountIdle /\ TransformIdle /\ RefsIdle
SpecCodeSizeNext ==
    \/ CsIterate /\ UNCHANGED <<statsVars, visitorVars, clsCountVars, transformVars, refsVars>>
    \/ CsFinish /\ UNCHANGED <<statsVars, visitorVars, clsCountVars, transformVars, refsVars>>
SpecCodeSize == SpecCodeSizeInit /\ [][SpecCodeSizeNext]_vars

SpecTransformInit ==
    TransformInit /\ StatsIdle /\ VisitorIdle /\ ClsCountIdle /\ CodeSizeIdle /\ RefsIdle
SpecTransformNext ==
    \/ AnalyseBlock /\ UNCHANGED <<statsVars, visitorVars, clsCountVars, codeSizeVars, refsVars>>
    \/ ApplyChanges /\ UNCHANGED <<statsVars, visitorVars, clsCountVars, codeSizeVars, refsVars>>
    \/ Reapply /\ UNCHANGED <<statsVars, visitorVars, clsCountVars, codeSizeVars, refsVars>>
SpecTransform == SpecTransformInit /\ [][SpecTransformNext]_vars

\* group_by_refs is one sequential call: a step that can be taken is taken.
SpecRefsInit ==
    RefsInit /\ StatsIdle /\ VisitorIdle /\ ClsCountIdle /\ CodeSizeIdle /\ TransformIdle
SpecRefsNext ==
    \/ RfSample /\ UNCHANGED <<statsVars, visitorVars, clsCountVars, codeSizeVars, transformVars>>
    \/ RfInsert /\ UNCHANGED <<statsVars, visitorVars, clsCountVars, codeSizeVars, transformVars>>
    \/ RfIterate /\ UNCHANGED <<statsVars, visitorVars, clsCountVars, codeSizeVars, transformVars>>
    \/ RfFinish /\ UNCHANGED <<statsVars, visitorVars, clsCountVars, codeSizeVars, transformVars>>
SpecRefs == SpecRefsInit /\ [][SpecRefsNext]_vars /\ WF_vars(SpecRefsNext)

(***************************************************************************)
(* Properties                                                              *)
(***************************************************************************)

\* ---- value_to_instruction_visitor

CheckerMarksIllegal(ref) ==
    ~m_xstores.is_null /\ illegal_ref(m_xstores, m_declaring_type, ref)

\* C1: the visitor returns a const-class instruction for type T only if the
\* Store-Partition Checker does not mark (declaring type, T) illegal; when the
\* checker marks the pair illegal the returned sequence is empty.
C1_ClassRefGated ==
    v_pc = "done" =>
        /\ \A i \in DOMAIN v_result :
              v_result[i].opcode = "OPCODE_CONST_CLASS" =>
                  ~CheckerMarksIllegal(v_result[i].type)
        /\ (/\ v_value.kind = "ConstantClassObjectDomain"
            /\ v_value.constant /= <<>>
            /\ CheckerMarksIllegal(v_value.constant[1])) => v_result = <<>>

\* C1 witness: a singleton class constant whose type the checker marks
\* illegal was visited, and another type would have been legal.
C1_Witness ==
    /\ v_pc = "done"
    /\ v_value.kind = "ConstantClassObjectDomain"
    /\ v_value.constant /= <<>>
    /\ CheckerMarksIllegal(v_value.constant[1])
    /\ \E t \in DexTypes : ~CheckerMarksIllegal(t)
    /\ v_result = <<>>

\* C2 (as claimed): the visitor never emits a const-string instruction whose
\* string the Store-Partition Checker marks illegal for the declaring type.
C2_StringGated ==
    v_pc = "done" =>
        \A i \in DOMAIN v_result :
            v_result[i].opcode = "OPCODE_CONST_STRING" =>
                ~CheckerMarksIllegal(v_result[i].string)

\* C2 (amended): for every singleton string constant the visitor returns the
\* const-string of that string followed by a move-result-pseudo-object into
\* the original destination, whatever the Store-Partition Checker says: the
\* checker is not consulted for strings.
C2_StringUngated ==
    (/\ v_pc = "done"
     /\ v_value.kind = "StringDomain"
     /\ v_value.constant /= <<>>) =>
        v_result = << [opcode |-> "OPCODE_CONST_STRING",
                       string |-> v_value.constant[1]],
                      [opcode |-> "IOPCODE_MOVE_RESULT_PSEUDO_OBJECT",
                       dest |-> m_original.dest] >>

\* C2 witness: a singleton string the checker marks illegal was visited and
\* the const-string was emitted all the same.
C2_Witness ==
    /\ v_pc = "done"
    /\ v_value.kind = "StringDomain"
    /\ v_value.constant /= <<>>
    /\ CheckerMarksIllegal(v_value.constant[1])
    /\ Len(v_result) = 2

\* C7: for a singleton numeric constant c the visitor returns exactly one
\* instruction, with literal c and the original destination, and it is a wide
\* constant-load iff the original destination is wide (narrow otherwise).
C7_NumericSized ==
    (/\ v_pc = "done"
     /\ v_value.kind = "SignedConstantDomain"
     /\ v_value.constant /= <<>>) =>
        /\ Len(v_result) = 1
        /\ v_result[1].literal = v_value.constant[1]
        /\ v_result[1].dest = m_original.dest
        /\ v_result[1].opcode \in {"OPCODE_CONST", "OPCODE_CONST_WIDE"}
        /\ (v_result[1].opcode = "OPCODE_CONST_WIDE") <=> m_original.dest_is_wide

\* C7 witness: a non-zero numeric constant was materialized into a wide
\* destination other than register 0.
C7_Witness ==
    /\ v_pc = "done"
    /\ v_value.kind = "SignedConstantDomain"
    /\ v_value.constant /= <<>>
    /\ v_value.constant[1] /= 0
    /\ m_original.dest_is_wide
    /\ m_original.dest /= 0
    /\ v_result /= <<>>

MaterializableKinds ==
    {"SignedConstantDomain", "StringDomain", "ConstantClassObjectDomain"}

\* C8: the visitor returns the empty sequence for every value that is not a
\* singleton constant and for every domain kind other than numeric, string
\* and class-reference; a non-empty result comes only from a singleton
\* numeric, string or class-reference value.
C8_EmptyUnlessSingleton ==
    v_pc = "done" =>
        /\ (v_value.constant = <<>> \/ v_value.kind \notin MaterializableKinds)
              => v_result = <<>>
        /\ v_result /= <<>> =>
              (v_value.constant /= <<>> /\ v_value.kind \in MaterializableKinds)

\* C8 witness: a singleton value of another domain kind was visited and
\* nothing was returned.
C8_Witness ==
    /\ v_pc = "done"
    /\ v_value.kind \notin MaterializableKinds
    /\ v_value.constant /= <<>>
    /\ v_result = <<>>

\* ---- Stats

RECURSIVE StatsFold(_, _)
\* The records of S merged into a zero Stats in index order n, n-1, ..., 1
\* innermost-first: ((0 + s1) + s2) + ...
StatsFold(n, S) ==
    IF n = 0 THEN StatsZero
    ELSE IF n \in S THEN StatsAdd(StatsFold(n - 1, S), st_in[n])
    ELSE StatsFold(n - 1, S)

\* C3: Stats merge is commutative and associative over all seven counters
\* (addition wrapping at the counter width), so merging the per-method Stats
\* in any order gives the aggregate that merging them in index order gives.
C3_StatsMergeAssocComm ==
    /\ \A i, j \in DOMAIN st_in :
          StatsAdd(st_in[i], st_in[j]) = StatsAdd(st_in[j], st_in[i])
    /\ \A i, j, k \in DOMAIN st_in :
          StatsAdd(StatsAdd(st_in[i], st_in[j]), st_in[k]) =
              StatsAdd(st_in[i], StatsAdd(st_in[j], st_in[k]))
    /\ st_agg = StatsFold(Len(st_in), DOMAIN st_in \ st_pending)

\* C3 witness: all records were merged, they differ, and a counter wrapped.
C3_Witness ==
    /\ st_in /= <<>>
    /\ st_pending = {}
    /\ \E i, j \in DOMAIN st_in :
          /\ st_in[i] /= st_in[j]
          /\ st_in[i].branches_removed /= st_in[i].branches_forwarded
          /\ st_in[i].throws + st_in[j].throws >= SizeMod

\* ---- group_by_code_size

RECURSIVE SumSizes(_)
SumSizes(group) ==
    IF group = <<>> THEN 0 ELSE cs_size[Head(group)] + SumSizes(Tail(group))

Grouped(groups) == UNION { { g[k] : k \in DOMAIN g } : g \in { groups[i] : i \in DOMAIN groups } }

\* C9: every group handed to the walker holds at least two types, the sum of
\* its members' estimates is at most 2^15, and no class whose own estimate
\* exceeds 2^15 is in any group.
C9_CodeSizeGroups ==
    \A i \in DOMAIN cs_groups :
        /\ Len(cs_groups[i]) >= 2
        /\ SumSizes(cs_groups[i]) <= max_instruction_size
        /\ \A k \in DOMAIN cs_groups[i] : cs_size[cs_groups[i][k]] <= max_instruction_size

\* C9 witness: the run is over, a group was handed out, an oversize class was
\* skipped and a class that fits was left in no group.
C9_Witness ==
    /\ cs_pc = "done"
    /\ cs_groups /= <<>>
    /\ \E t \in DOMAIN cs_size : cs_size[t] > max_instruction_size
    /\ \E t \in DOMAIN cs_size : cs_size[t] <= max_instruction_size /\ t \notin Grouped(cs_groups)
    /\ \E i \in DOMAIN cs_groups : SumSizes(cs_groups[i]) = max_instruction_size

\* ---- group_by_cls_count

RECURSIVE Flatten(_)
Flatten(groups) ==
    IF groups = <<>> THEN <<>> ELSE Head(groups) \o Flatten(Tail(groups))

\* C10: given 2 <= min <= max (otherwise the assertion fails before any
\* walker call) the groups are disjoint consecutive runs of the ordered set,
\* each of min..max members, all but possibly the last of exactly max; what is
\* left in no group is a trailing run of fewer than min types; without a
\* maximum at most one group is emitted and it holds all types.
C10_ClsCountGroups ==
    LET max == max_mergeables_count(cc_opt_max)
        grouped == Flatten(cc_groups)
    IN /\ cc_pc = "aborted" <=>
             (cc_pc \notin {"assert", "idle"} /\ ~(2 <= cc_min /\ cc_min <= max))
       /\ cc_pc = "aborted" => cc_groups = <<>>
       /\ grouped = SubSeq(cc_types, 1, Len(grouped))
       /\ \A i \in DOMAIN cc_groups :
             /\ cc_min <= Len(cc_groups[i]) /\ Len(cc_groups[i]) <= max
             /\ i < Len(cc_groups) => Len(cc_groups[i]) = max
       /\ cc_pc = "done" => Len(cc_types) - Len(grouped) < cc_min
       /\ cc_opt_max = <<>> =>
             /\ Len(cc_groups) <= 1
             /\ cc_groups /= <<>> => cc_groups[1] = cc_types

\* C10 witness: the run is over with a maximum given, at least two groups
\* were handed out and the last one is shorter than the maximum.
C10_Witness ==
    /\ cc_pc = "done"
    /\ cc_opt_max /= <<>>
    /\ Len(cc_groups) >= 2
    /\ Len(cc_groups[Len(cc_groups)]) < cc_opt_max[1]
    /\ cc_min < cc_opt_max[1]

\* ---- Transform

Positions(g) ==
    UNION { { <<b, k>> : k \in 0..Len(g[b].insns) } : b \in DOMAIN g }
InsnAt(g, p) == IF p[2] = 0 THEN g[p[1]].last ELSE g[p[1]].insns[p[2]]
Ids(g) == { InsnAt(g, p).id : p \in Positions(g) }
CountId(g, id) == Cardinality({ p \in Positions(g) : InsnAt(g, p).id = id })
CountOrigin(g, o) == Cardinality({ p \in Positions(g) : InsnAt(g, p).origin = o })

\* The body without the parameter constants application run inserted.
WithoutAdded(g, run) ==
    [b \in DOMAIN g |->
        [g[b] EXCEPT !.insns =
            SelectSeq(@, LAMBDA x :
                ~(x.origin.queue = "m_added_param_values" /\ x.origin.run = run))]]

\* The load-params of the entry block whose register the inputs prove constant.
ConstParams(g) ==
    { p \in Positions(g) :
        /\ InsnAt(g, p).insn.opcode = "IOPCODE_LOAD_PARAM"
        /\ FactValue(t_facts, InsnAt(g, p).id).constant /= <<>> }

DeadBranchProven(b, c) ==
    /\ IsIf(t_method[b])
    /\ ~EnvIsBottom(t_method, t_facts, b)
    /\ t_facts.cond[b] = c

\* The blocks reachable only through the false-successor edge of block b.
OnlyViaFalse(b) ==
    Blocks \ ReachFrom({EntryBlock},
                       [x \in Blocks |-> IF x = b THEN {t_method[b].branch}
                                         ELSE Successors(t_method[x])],
                       MaxBlocks)

DeadBranchRewritten(b) ==
    /\ b \in DOMAIN body
    /\ body[b].last.insn.opcode = "OPCODE_GOTO"
    /\ body[b].goto = t_method[b].branch
    /\ Successors(body[b]) = {t_method[b].branch}
    /\ OnlyViaFalse(b) \cap DOMAIN body = {}

DeadBranches ==
    { b \in Blocks : DeadBranchProven(b, "true") \/ DeadBranchProven(b, "false") }

EditsTargetOriginal ==
    /\ \A i \in DOMAIN m_replacements : m_replacements[i][1] \in Ids(body0)
    /\ \A i \in DOMAIN m_deletes : m_deletes[i] \in Ids(body0)

\* Every queued edit has been applied exactly once.
EditsAppliedOnce ==
    /\ \A i \in DOMAIN m_replacements :
          /\ CountId(body, m_replacements[i][1]) = 0
          /\ CountOrigin(body, [queue |-> "m_replacements", i |-> i, run |-> t_run])
                = Len(m_replacements[i][2])
    /\ \A i \in DOMAIN m_deletes : CountId(body, m_deletes[i]) = 0
    /\ \A i \in DOMAIN m_added_param_values :
          CountOrigin(body, [queue |-> "m_added_param_values", i |-> i,
                             run |-> t_run]) = 1
    /\ \A id \in Ids(body0) :
          CountId(body, id) <= 1

GroupsHolding(t) ==
    Cardinality({ i \in DOMAIN rf_groups :
                    \E k \in DOMAIN rf_groups[i] : rf_groups[i][k] = t })

\* How often the type t occurs in the groups handed to the walker.
Occurrences(t) ==
    Cardinality({ k \in DOMAIN Flatten(rf_groups) : Flatten(rf_groups)[k] = t })

\* The step is an iteration of the while loop of group_by_refs.
RefsLoopIteration == rf_iterations' /= rf_iterations

\* C11: group_by_refs terminates for every finite set of mergeable types.
\* Each iteration of the while loop erases exactly one class from the
\* minimizer, whether the class is skipped as oversize or added to the
\* current group; the loop has run once per inserted class when it ends;
\* and no type is in more than one group handed to the walker.
C11_RefsTerminates ==
    /\ <>(rf_pc = "done")
    /\ [][RefsLoopIteration =>
            /\ rf_iterations' = rf_iterations + 1
            /\ \E cls \in cross_dex_ref_minimizer.classes :
                  /\ cross_dex_ref_minimizer'.classes =
                         cross_dex_ref_minimizer.classes \ {cls}
                  /\ \/ Oversize(rf_size[cls]) /\ rf_current_group' = rf_current_group
                     \/ /\ ~Oversize(rf_size[cls])
                        /\ rf_current_group' /= <<>>
                        /\ rf_current_group'[Len(rf_current_group')] = cls]_vars
    /\ [](/\ rf_pc = "loop" =>
                rf_iterations + Cardinality(cross_dex_ref_minimizer.classes)
                    = Len(rf_types)
          /\ rf_pc = "done" =>
                /\ rf_iterations = Len(rf_types)
                /\ empty(cross_dex_ref_minimizer)
          /\ \A t \in DOMAIN rf_size :
                GroupsHolding(t) <= 1 /\ Occurrences(t) <= 1)

\* C11 witness: the call has returned after three iterations over three
\* inserted classes; one class was skipped as oversize and the two others
\* were handed to the walker in one group.
C11_Witness ==
    /\ rf_pc = "done"
    /\ Len(rf_types) = 3
    /\ rf_iterations = 3
    /\ \E t \in DOMAIN rf_size : Oversize(rf_size[t]) /\ GroupsHolding(t) = 0
    /\ Len(rf_groups) = 1
    /\ Len(rf_groups[1]) = 2

====
